---- MODULE Spec2Model ----
(***************************************************************************)
(* A model of the PDF viewer of src/pdf_viewer.py (and of the parts that   *)
(* src/tidy.py shares with it): the directory/PDF filter of the file       *)
(* browser, the favorites list and the last-root path with their text      *)
(* files, the window-state JSON file, and the centre view with its error   *)
(* overlay, fit mode and table-of-contents jumps.                          *)
(*                                                                         *)
(* Text is modelled as a sequence of one-character strings, so that        *)
(* lower(), strip(), splitlines(), "\n".join() and endswith() are          *)
(* computed the way Python computes them.  Each subsystem has its own      *)
(* specification (SpecFilter, SpecFiles, SpecWindow, SpecView); the        *)
(* variables of the other subsystems stay at rest in it.                   *)
(***************************************************************************)
EXTENDS Integers, Sequences, FiniteSets

VARIABLES
    source_row,      \* filterAcceptsRow: the row asked about (0-based)
    source_parent,   \* filterAcceptsRow: the parent's row count and the entry at source_row
    accepted,        \* filterAcceptsRow: its return value, << >> before the call
    phase,           \* "off" before the program starts and after it closes, else "running"
    disk,            \* the paths that exist on disk
    favFile,         \* content of favorites.txt, or Absent
    lastRootFile,    \* content of last_root.txt, or Absent
    fav_list,        \* FilesPanel.fav_list: the item texts, in order
    root,            \* the browser's root path (fs_model root and tree root index)
    windowStateFile, \* content of window_state.json, or AbsentJson
    winState,        \* the main window: "hidden", "normal" or "maximized"
    winGeom,         \* the main window's normal geometry <<x, y, width, height>>
    stackIndex,      \* CenterPdfView.stack: 0 shows the PDF view, 1 the overlay label
    overlayText,     \* the overlay label's text
    docStatus,       \* QPdfDocument.status(): "Null", "Ready" or "Error"
    pageCount,       \* QPdfDocument.pageCount()
    currentPage,     \* the page navigator's current page
    zoomMode,        \* QPdfView.zoomMode(): "Custom", "FitToWidth" or "FitInView"
    zoomFactor,      \* QPdfView.zoomFactor(), as base * 1.10^exp
    tools_page_total,   \* RightToolbar._page_total
    tools_current_page, \* RightToolbar._current_page
    tocTabColor,     \* the text colour of the TOC tab
    loaded,          \* what the last load_file returned, << >> before the first
    jumps,           \* the page-navigator jumps the last handler made, in order
    lastOp,          \* the handler that ran last, with its inputs
    emitted,         \* the signals the last handler emitted, in order
    written          \* the files the last handler wrote

filterVars == <<source_row, source_parent, accepted>>
filesVars == <<disk, favFile, lastRootFile, fav_list, root>>
windowVars == <<windowStateFile, winState, winGeom>>
viewVars == <<stackIndex, overlayText, docStatus, pageCount, currentPage, zoomMode,
              zoomFactor, tools_page_total, tools_current_page, tocTabColor, loaded, jumps>>
traceVars == <<lastOp, emitted, written>>
vars == <<filterVars, phase, filesVars, windowVars, viewVars, traceVars>>

----------------------------------------------------------------------------
(* Text helpers: Python's str methods on sequences of characters.          *)

\* The characters str.strip() removes and str.splitlines() splits at.  read_text
\* opens the file with universal newlines, so every line break reads as "\n".
NL == "\n"
Whitespace == {" ", NL}

\* str.lower() on one character.
LowerChar(c) ==
    CASE c = "P" -> "p"
      [] c = "D" -> "d"
      [] c = "F" -> "f"
      [] c = "A" -> "a"
      [] OTHER -> c

\* A plausible slip: no case folding at all.
LowerNoFold(s) == s

\* str.lower()
Lower(s) == [i \in 1..Len(s) |-> LowerChar(s[i])]

\* str.endswith(suffix)
EndsWith(s, suffix) ==
    /\ Len(s) >= Len(suffix)
    /\ SubSeq(s, Len(s) - Len(suffix) + 1, Len(s)) = suffix

DotPdf == <<".", "p", "d", "f">>

RECURSIVE LStrip(_)
LStrip(s) == IF s # <<>> /\ Head(s) \in Whitespace THEN LStrip(Tail(s)) ELSE s

RECURSIVE RStrip(_)
RStrip(s) ==
    IF s # <<>> /\ s[Len(s)] \in Whitespace THEN RStrip(SubSeq(s, 1, Len(s) - 1)) ELSE s

\* str.strip()
Strip(s) == LStrip(RStrip(s))

\* The position of the first line break of s, 0 if it has none.
FirstBreak(s) ==
    IF \E i \in 1..Len(s) : s[i] = NL
    THEN CHOOSE i \in 1..Len(s) : s[i] = NL /\ \A j \in 1..(i - 1) : s[j] # NL
    ELSE 0

\* str.splitlines(): the lines without their breaks; a final break ends the
\* last line and starts no empty one.
RECURSIVE SplitLines(_)
SplitLines(s) ==
    IF s = <<>> THEN <<>>
    ELSE LET k == FirstBreak(s)
         IN IF k = 0 THEN <<s>>
            ELSE <<SubSeq(s, 1, k - 1)>> \o SplitLines(SubSeq(s, k + 1, Len(s)))

\* "\n".join(items)
RECURSIVE Join(_)
Join(items) ==
    IF items = <<>> THEN <<>>
    ELSE IF Len(items) = 1 THEN items[1]
    ELSE items[1] \o <<NL>> \o Join(Tail(items))

----------------------------------------------------------------------------
(* PdfFilterProxyModel.filterAcceptsRow                                    *)

\* QFileSystemModel.index(row, 0, parent): valid exactly for the rows the
\* parent has; isDir() of an invalid index answers true (it stands for the
\* model's root) and fileName() of it is empty.
ModelIndex(row, parent) ==
    IF row >= 0 /\ row < parent.rowCount
    THEN [valid |-> TRUE, isDir |-> parent.isDir, fileName |-> parent.fileName]
    ELSE [valid |-> FALSE, isDir |-> TRUE, fileName |-> <<>>]

\* The body of filterAcceptsRow once the index is made.
filterAcceptsIndex(index) ==
    IF ~index.valid THEN FALSE
    ELSE IF index.isDir THEN TRUE
    ELSE EndsWith(Lower(index.fileName), DotPdf)

filterAcceptsRow(row, parent) == filterAcceptsIndex(ModelIndex(row, parent))

\* Bounds of the filter's inputs.
MaxRows == 1
MaxStemLen == 1

Stems == UNION {[1..n -> {"a"}] : n \in 0..MaxStemLen}

\* ".pdf" in every mix of upper and lower case.
PdfCaseVariants == {<<".", p, d, f>> : p \in {"p", "P"}, d \in {"d", "D"}, f \in {"f", "F"}}

\* Tails that are not a ".pdf" ending.
OtherTails ==
    { <<>>,
      <<".", "p", "d">>,
      <<"p", "d", "f">>,
      <<".", "p", "d", "f", "x">>,
      <<".", "t", "x", "t">>,
      <<".", "P", "D", "F", ".", "t", "x", "t">> }

FileNames == {s \o t : s \in Stems, t \in PdfCaseVariants \cup OtherTails}

Parents == [rowCount : 0..MaxRows, isDir : BOOLEAN, fileName : FileNames]

FilterIdle ==
    /\ source_row = 0
    /\ source_parent = [rowCount |-> 0, isDir |-> FALSE, fileName |-> <<>>]
    /\ accepted = <<>>

FilterInit ==
    /\ source_row \in 0..MaxRows
    /\ source_parent \in Parents
    /\ accepted = <<>>

\* The proxy model asks about the row.
FilterRow ==
    /\ accepted = <<>>
    /\ accepted' = <<filterAcceptsRow(source_row, source_parent)>>
    /\ UNCHANGED <<source_row, source_parent>>
    /\ UNCHANGED <<phase, filesVars, windowVars, viewVars, traceVars>>

----------------------------------------------------------------------------
(* Rest states of the other subsystems.                                    *)

\* A file that does not exist, and a file holding the given text.
Absent == [exists |-> FALSE, text |-> <<>>]
File(text) == [exists |-> TRUE, text |-> text]

FilesIdle ==
    /\ disk = {}
    /\ favFile = Absent
    /\ lastRootFile = Absent
    /\ fav_list = <<>>
    /\ root = <<>>

\* window_state.json when it does not exist.
AbsentJson == [exists |-> FALSE, parses |-> FALSE, value |-> [t |-> "null"]]

\* MainWindow.resize(1280, 800) in __init__; the window manager places the window.
DefaultGeom == <<0, 0, 1280, 800>>

WindowIdle ==
    /\ windowStateFile = AbsentJson
    /\ winState = "hidden"
    /\ winGeom = DefaultGeom

\* QPointF(): the null point.
NullPoint == <<0, 0>>

\* The zoom factor base * 1.10^exp, base being 1.0 ("one"), 0.05 ("min") or
\* 6.0 ("max").
Zoom(base, exp) == [base |-> base, exp |-> exp]

ViewIdle ==
    /\ stackIndex = 1
    /\ overlayText = <<"No document loaded.">>
    /\ docStatus = "Null"
    /\ pageCount = 0
    /\ currentPage = 0
    /\ zoomMode = "Custom"
    /\ zoomFactor = Zoom("one", 0)
    /\ tools_page_total = 0
    /\ tools_current_page = 0
    /\ tocTabColor = "#777777"
    /\ loaded = <<>>
    /\ jumps = <<>>

TraceIdle ==
    /\ lastOp = [op |-> "none", arg |-> <<>>]
    /\ emitted = <<>>
    /\ written = {}

----------------------------------------------------------------------------
(* The filter's specification.                                             *)

InitFilter ==
    FilterInit /\ phase = "off" /\ FilesIdle /\ WindowIdle /\ ViewIdle /\ TraceIdle

NextFilter == FilterRow

SpecFilter == InitFilter /\ [][NextFilter]_vars

\* C1: a source row is accepted if and only if its index is valid and it is
\* a directory or a file whose name ends, in any mix of case, with ".pdf";
\* every other file, and every invalid index, is hidden.
C1_FilterShowsDirsAndPdfs ==
    accepted # <<>> =>
        (accepted[1] <=>
            /\ source_row < source_parent.rowCount
            /\ \/ source_parent.isDir
               \/ \E v \in PdfCaseVariants :
                    \E n \in 0..Len(source_parent.fileName) :
                        source_parent.fileName = SubSeq(source_parent.fileName, 1, n) \o v)

\* A file named with an upper-case ".PDF" ending has been asked about and shown.
C1_Witness ==
    /\ accepted = <<TRUE>>
    /\ source_row < source_parent.rowCount
    /\ ~source_parent.isDir
    /\ source_parent.fileName = <<"a", ".", "P", "D", "F">>

----------------------------------------------------------------------------
(* The disk: the paths the file browser and the favorites can name.        *)

Home == <<"/", "h">>                                         \* Path.home()
DirA == <<"/", "h", "/", "a">>                               \* a folder below home
PdfFile == <<"/", "h", "/", "a", "/", "x", ".", "P", "D", "F">>  \* a PDF file in it
DirPdf == <<"/", "h", "/", "d", ".", "p", "d", "f">>         \* a folder named like a PDF
DirB == <<"/", "b">>                                         \* a folder outside home
Gone == <<"/", "g">>                                         \* a path that never exists

Universe == {Home, DirA, PdfFile, DirPdf, DirB}
Folders == {Home, DirA, DirPdf, DirB}

\* The paths the environment may delete while the program runs or rests.
Removable == {DirA, PdfFile, DirB}

\* p lies below the folder r.
IsUnder(p, r) ==
    /\ Len(p) > Len(r) + 1
    /\ SubSeq(p, 1, Len(r)) = r
    /\ p[Len(r) + 1] = "/"

\* Path(p).exists() / os.path.exists(p)
Exists(p) == p \in disk

\* Path(p).is_dir()
IsDir(p) == p \in disk /\ p \in Folders

\* The position of the first "/" of p.
FirstSlash(p) == CHOOSE i \in 1..Len(p) : p[i] = "/" /\ \A j \in 1..(i - 1) : p[j] # "/"

\* The last component of a path: QFileSystemModel.fileName().
RECURSIVE BaseName(_)
BaseName(p) ==
    IF \E i \in 1..Len(p) : p[i] = "/"
    THEN BaseName(SubSeq(p, 1 + FirstSlash(p), Len(p)))
    ELSE p

----------------------------------------------------------------------------
(* FilesPanel: persistence helpers.                                        *)

\* Python's None and a value that is not None.
None == [none |-> TRUE, val |-> <<>>]
Some(v) == [none |-> FALSE, val |-> v]

\* a or b, for a string-or-None a.
PyOr(a, b) == IF a.none \/ a.val = <<>> THEN b ELSE a.val

\* A plausible slip: lines kept without the exists() test.
RECURSIVE load_favorites_unchecked(_, _)
load_favorites_unchecked(items, lines) ==
    IF lines = <<>> THEN items
    ELSE LET line == Strip(Head(lines))
         IN load_favorites_unchecked(
                IF line # <<>> THEN Append(items, line) ELSE items, Tail(lines))

\* The loop of _load_favorites over the lines read, appending to the list.
RECURSIVE load_favorites_loop(_, _)
load_favorites_loop(items, lines) ==
    IF lines = <<>> THEN items
    ELSE LET line == Strip(Head(lines))
         IN load_favorites_loop(
                IF line # <<>> /\ Exists(line) THEN Append(items, line) ELSE items,
                Tail(lines))

\* _load_favorites on a list holding items: the list afterwards.
load_favorites(items) ==
    LET cleared == <<>>
    IN IF favFile.exists
       THEN load_favorites_loop(cleared, SplitLines(favFile.text))
       ELSE cleared

\* A plausible slip: every item but the last is written.
save_favorites_short(items) ==
    File(Join(IF items = <<>> THEN items ELSE SubSeq(items, 1, Len(items) - 1)))

\* _save_favorites: the file it writes.
save_favorites(items) == File(Join(items))

\* A plausible slip: the stored root returned without the exists() test.
load_last_root_unchecked ==
    IF lastRootFile.exists /\ Strip(lastRootFile.text) # <<>>
    THEN Some(Strip(lastRootFile.text))
    ELSE None

\* _load_last_root
load_last_root ==
    IF lastRootFile.exists
    THEN LET r == Strip(lastRootFile.text)
         IN IF r # <<>> /\ Exists(r) THEN Some(r) ELSE None
    ELSE None

\* A plausible slip: nothing is written.
save_last_root_skipped(r) == lastRootFile

\* _save_last_root, and MainWindow._persist_root after it: the file written.
save_last_root(r) == File(r)

\* start_root in FilesPanel.__init__
start_root == PyOr(load_last_root, Home)

Signal(name, arg) == [sig |-> name, arg |-> arg]

----------------------------------------------------------------------------
(* FilesPanel: construction and handlers.                                  *)

\* Bounds of the files' specification.
MaxFileLines == 2        \* lines of favorites.txt before the first start
MaxFavs == 3             \* items the favorites list may grow to

Pad(p) == <<" ">> \o p \o <<" ">>

\* The lines favorites.txt may hold before the first start: a blank one, a
\* folder, a folder written with spaces around it, and a path that is gone.
FavLines == {<<" ">>, DirA, Pad(DirB), Gone}

InitFavFiles ==
    {Absent} \cup
    {File(Join(ls) \o t) :
        ls \in UNION {[1..n -> FavLines] : n \in 0..MaxFileLines},
        t \in {<<>>, <<NL>>}}

InitLastRootFiles ==
    {Absent, File(<<>>), File(<<" ", NL>>), File(DirA), File(Pad(DirB) \o <<NL>>),
     File(Gone)}

FilesInit ==
    /\ disk = Universe
    /\ favFile \in InitFavFiles
    /\ lastRootFile \in InitLastRootFiles
    /\ fav_list = <<>>
    /\ root = <<>>

Op(name, arg) == [op |-> name, arg |-> arg]

\* FilesPanel.__init__: the browser opens at start_root, then the favorites load
\* into the new, empty list.
Startup ==
    /\ phase = "off"
    /\ phase' = "running"
    /\ root' = start_root
    /\ fav_list' = load_favorites(<<>>)
    /\ lastOp' = Op("startup", <<>>)
    /\ emitted' = <<>>
    /\ written' = {}
    /\ UNCHANGED <<disk, favFile, lastRootFile>>
    /\ UNCHANGED <<filterVars, windowVars, viewVars>>

\* What QFileDialog.getExistingDirectory can answer: "" when cancelled, else a
\* folder that exists.
DialogFolders == {<<>>} \cup {d \in Folders : d \in disk}

\* _add_favorite, the dialog answering folder.
AddFavorite(folder) ==
    /\ phase = "running"
    /\ Len(fav_list) < MaxFavs
    /\ lastOp' = Op("add_favorite", folder)
    /\ emitted' = <<>>
    /\ IF folder # <<>> /\ ~(\E i \in 1..Len(fav_list) : fav_list[i] = folder)
       THEN /\ fav_list' = Append(fav_list, folder)
            /\ favFile' = save_favorites(fav_list')
            /\ written' = {"favorites"}
       ELSE /\ UNCHANGED <<fav_list, favFile>>
            /\ written' = {}
    /\ UNCHANGED <<phase, disk, lastRootFile, root>>
    /\ UNCHANGED <<filterVars, windowVars, viewVars>>

\* fav_list.takeItem(row)
TakeItem(items, row) ==
    SubSeq(items, 1, row) \o SubSeq(items, row + 2, Len(items))

\* A plausible slip: the list saved whether or not a row was selected.
RemoveSelectedFavoriteAlwaysSaves(row) ==
    /\ phase = "running"
    /\ lastOp' = Op("remove_selected_favorite", row)
    /\ emitted' = <<>>
    /\ fav_list' = TakeItem(fav_list, row)
    /\ favFile' = save_favorites(fav_list')
    /\ written' = {"favorites"}
    /\ UNCHANGED <<phase, disk, lastRootFile, root>>
    /\ UNCHANGED <<filterVars, windowVars, viewVars>>

\* _remove_selected_favorite, row being fav_list.currentRow() (0-based, -1 for none).
RemoveSelectedFavorite(row) ==
    /\ phase = "running"
    /\ lastOp' = Op("remove_selected_favorite", row)
    /\ emitted' = <<>>
    /\ IF row >= 0
       THEN /\ fav_list' = TakeItem(fav_list, row)
            /\ favFile' = save_favorites(fav_list')
            /\ written' = {"favorites"}
       ELSE /\ UNCHANGED <<fav_list, favFile>>
            /\ written' = {}
    /\ UNCHANGED <<phase, disk, lastRootFile, root>>
    /\ UNCHANGED <<filterVars, windowVars, viewVars>>

\* The disk d once p, and with a folder everything below it, is deleted.
DiskWithout(d, p) == {q \in d : q # p /\ ~IsUnder(q, p)}

\* A plausible slip: the root set without the exists() test.
setRootPath_unchecked(now, r, root_path) == [raised |-> FALSE, root |-> root_path]

\* PdfExplorerWidget.setRootPath(root_path) on a browser rooted at r, the disk
\* being now: FileNotFoundError before fs_model.setRootPath is reached when
\* root_path does not exist, else the new root (the tree's root index follows
\* it in the same handlers).
setRootPath(now, r, root_path) ==
    IF root_path \notin now
    THEN [raised |-> TRUE, root |-> r]
    ELSE [raised |-> FALSE, root |-> root_path]

\* browser.setRootPath(path), tree.setRootIndex, _save_last_root(path) and
\* rootChanged.emit(path), which MainWindow._persist_root answers by writing the
\* same path again.
\* The handlers' try block runs on the disk as it is by then (now):
\* setRootPath raising ends it at once, the except clause showing a warning.
ChangeRoot(path, now) ==
    LET r == setRootPath(now, root, path)
    IN IF r.raised
       THEN /\ root' = r.root
            /\ UNCHANGED lastRootFile
            /\ emitted' = <<>>
            /\ written' = {}
       ELSE /\ root' = r.root
            /\ lastRootFile' = save_last_root(path)
            /\ emitted' = <<Signal("rootChanged", path)>>
            /\ written' = {"last_root"}

\* _activate_favorite on the item at row (0-based).  vanishes: the folder is
\* deleted between the handler's exists() test and its call of setRootPath.
ActivateFavorite(row, vanishes) ==
    /\ phase = "running"
    /\ vanishes => (fav_list[row + 1] \in Removable /\ Exists(fav_list[row + 1]))
    /\ lastOp' = Op("activate_favorite", fav_list[row + 1])
    /\ disk' = IF vanishes THEN DiskWithout(disk, fav_list[row + 1]) ELSE disk
    /\ IF Exists(fav_list[row + 1])
       THEN ChangeRoot(fav_list[row + 1], disk')
       ELSE /\ UNCHANGED <<root, lastRootFile>>
            /\ emitted' = <<>>
            /\ written' = {}
    /\ UNCHANGED <<phase, favFile, fav_list>>
    /\ UNCHANGED <<filterVars, windowVars, viewVars>>

\* The rows the tree can show below the root: the entries the file-system model
\* has listed there and the filter accepts.  The listing may be older than the
\* disk, so a row may name a path that has been deleted since.
TreeRows ==
    {p \in Universe :
        /\ IsUnder(p, root)
        /\ filterAcceptsIndex(
               [valid |-> TRUE, isDir |-> p \in Folders, fileName |-> BaseName(p)])}

\* _on_double_clicked on the row of path.
OnDoubleClicked(path) ==
    /\ phase = "running"
    /\ lastOp' = Op("on_double_clicked", path)
    /\ IF path # <<>> /\ EndsWith(Lower(path), DotPdf) /\ Exists(path)
       THEN /\ emitted' = <<Signal("fileActivated", path)>>
            /\ written' = {}
            /\ UNCHANGED <<root, lastRootFile>>
       ELSE IF IsDir(path)
       THEN ChangeRoot(path, disk)
       ELSE /\ emitted' = <<>>
            /\ written' = {}
            /\ UNCHANGED <<root, lastRootFile>>
    /\ UNCHANGED <<phase, disk, favFile, fav_list>>
    /\ UNCHANGED <<filterVars, windowVars, viewVars>>

\* The environment deletes a path while the program runs, and with a folder
\* everything below it.
FsRemove(p) ==
    /\ phase = "running"
    /\ p \in disk
    /\ disk' = DiskWithout(disk, p)
    /\ lastOp' = Op("fs_remove", p)
    /\ emitted' = <<>>
    /\ written' = {}
    /\ UNCHANGED <<phase, favFile, lastRootFile, fav_list, root>>
    /\ UNCHANGED <<filterVars, windowVars, viewVars>>

\* The window closes and the process ends; the two files stay as they are.
Quit ==
    /\ phase = "running"
    /\ phase' = "off"
    /\ fav_list' = <<>>
    /\ root' = <<>>
    /\ lastOp' = Op("quit", <<>>)
    /\ emitted' = <<>>
    /\ written' = {}
    /\ UNCHANGED <<disk, favFile, lastRootFile>>
    /\ UNCHANGED <<filterVars, windowVars, viewVars>>

InitFiles ==
    FilesInit /\ phase = "off" /\ FilterIdle /\ WindowIdle /\ ViewIdle /\ TraceIdle

NextFiles ==
    \/ Startup
    \/ \E folder \in DialogFolders : AddFavorite(folder)
    \/ \E row \in -1..(Len(fav_list) - 1) : RemoveSelectedFavorite(row)
    \/ \E row \in 0..(Len(fav_list) - 1), vanishes \in BOOLEAN : ActivateFavorite(row, vanishes)
    \/ \E path \in TreeRows : OnDoubleClicked(path)
    \/ \E p \in Removable : FsRemove(p)
    \/ Quit

SpecFiles == InitFiles /\ [][NextFiles]_vars

----------------------------------------------------------------------------
(* Claims about the favorites, the last root and their files.              *)

\* s is t without the whitespace at its two ends.
StripsTo(t, s) ==
    \E i \in 0..Len(t) : \E j \in i..Len(t) :
        /\ s = SubSeq(t, i + 1, j)
        /\ \A k \in 1..i : t[k] \in Whitespace
        /\ \A k \in (j + 1)..Len(t) : t[k] \in Whitespace
        /\ s # <<>> => (s[1] \notin Whitespace /\ s[Len(s)] \notin Whitespace)

\* a is b with some of its entries left out.
RECURSIVE IsSubseq(_, _)
IsSubseq(a, b) ==
    IF a = <<>> THEN TRUE
    ELSE IF b = <<>> THEN FALSE
    ELSE IF Head(a) = Head(b) THEN IsSubseq(Tail(a), Tail(b))
    ELSE IsSubseq(a, Tail(b))

\* The lines of favorites.txt, none when the file is absent.
FavFileLines == IF favFile.exists THEN SplitLines(favFile.text) ELSE <<>>

\* C2 as stated: while the program runs, the lines of favorites.txt are the
\* favorites list, entry for entry and in the same order.
C2_FileEqualsList == phase = "running" => FavFileLines = fav_list

\* C2, amended: the favorites file equals the list whenever a handler has just
\* written it (an add that appended, a remove that took an item); _load_favorites
\* does not write the file back, so in the other states the list is only what is
\* left of the file's lines, stripped, after dropping some of them.
C2_FileEqualsListAfterSave ==
    phase = "running" =>
        /\ "favorites" \in written =>
              /\ favFile.exists
              /\ FavFileLines = fav_list
        /\ IsSubseq(fav_list, [i \in 1..Len(FavFileLines) |-> Strip(FavFileLines[i])])

\* An item has been removed from a list of two or more and the file rewritten.
C2_Witness ==
    /\ phase = "running"
    /\ lastOp.op = "remove_selected_favorite"
    /\ written = {"favorites"}
    /\ Len(fav_list) >= 2

\* C3 as stated: while the program runs, the path stored in last_root.txt is
\* the browser's current root.
C3_FileEqualsRoot ==
    phase = "running" => (lastRootFile.exists /\ StripsTo(lastRootFile.text, root))

\* C3, amended: the path stored in last_root.txt is the browser's current root,
\* except while the browser shows the home folder; a handler that changes the
\* root leaves exactly the new root in the file.  (At startup nothing is
\* written: with the file absent or invalid the root is home and the file is
\* left as it was.)
C3_FileEqualsRootUnlessHome ==
    phase = "running" =>
        /\ \/ lastRootFile.exists /\ StripsTo(lastRootFile.text, root)
           \/ root = Home
        /\ emitted # <<>> /\ emitted[1].sig = "rootChanged" =>
              /\ lastRootFile = File(root)
              /\ root = emitted[1].arg

\* A double-click on a folder has made it the root and stored it.
C3_Witness ==
    /\ phase = "running"
    /\ lastOp = Op("on_double_clicked", DirA)
    /\ root = DirA
    /\ lastRootFile = File(DirA)
    /\ emitted = <<Signal("rootChanged", DirA)>>

\* C6: right after startup the browser's root is the stripped content of
\* last_root.txt if the file exists and that content is a path existing on
\* disk, and the home folder in every other case.
C6_StartRoot ==
    lastOp.op = "startup" =>
        IF lastRootFile.exists /\ \E p \in disk : StripsTo(lastRootFile.text, p)
        THEN StripsTo(lastRootFile.text, root) /\ root \in disk
        ELSE root = Home

\* The program has started at a stored root that was written with whitespace
\* around it.
C6_Witness ==
    /\ lastOp.op = "startup"
    /\ lastRootFile = File(Pad(DirB) \o <<NL>>)
    /\ root = DirB

\* The rows of favorites.txt whose stripped text is a path existing on disk.
KeptLines == {i \in 1..Len(FavFileLines) : \E p \in disk : StripsTo(FavFileLines[i], p)}

\* The k-th of them, in file order.
KeptLine(k) == CHOOSE i \in KeptLines : Cardinality({j \in KeptLines : j < i}) = k - 1

\* Lists the favorites widget might hold before a load.
PreviousLists == {<<>>, <<Home>>, <<DirA, Gone>>}

\* C7: right after startup the favorites list holds exactly the lines of
\* favorites.txt that, stripped, are non-empty and name an existing path, in
\* file order; it is empty when the file is absent; and whatever the list held
\* before the load is discarded.
C7_LoadFavorites ==
    lastOp.op = "startup" =>
        /\ Len(fav_list) = Cardinality(KeptLines)
        /\ \A k \in 1..Len(fav_list) : StripsTo(FavFileLines[KeptLine(k)], fav_list[k])
        /\ ~favFile.exists => fav_list = <<>>
        /\ \A prev \in PreviousLists : load_favorites(prev) = fav_list

\* A file of two lines, the first naming a path that is gone and the second a
\* folder written with spaces around it, has been loaded.
C7_Witness ==
    /\ lastOp.op = "startup"
    /\ FavFileLines = <<Gone, Pad(DirB)>>
    /\ fav_list = <<DirB>>

\* C13: in every state reached from startup by loads, adds and removes, the
\* entries of the favorites list are pairwise distinct: no folder is in the
\* list twice.
C13_FavoritesDistinct ==
    phase = "running" =>
        \A i, j \in 1..Len(fav_list) : fav_list[i] = fav_list[j] => i = j

\* C14: a favorites command with nothing to do changes nothing: _add_favorite
\* with the dialog cancelled and _remove_selected_favorite with no row selected
\* leave the favorites list as it is and do not write the favorites file; no
\* _add_favorite and no _remove_selected_favorite writes the last-root file or
\* changes the browser's root.
C14_IdleFavoritesCommands ==
    [][/\ (lastOp'.op = "add_favorite" /\ lastOp'.arg = <<>>) =>
             (UNCHANGED <<fav_list, favFile>> /\ written' = {})
       /\ (lastOp'.op = "remove_selected_favorite" /\ lastOp'.arg < 0) =>
             (UNCHANGED <<fav_list, favFile>> /\ written' = {})
       /\ lastOp'.op \in {"add_favorite", "remove_selected_favorite"} =>
             (UNCHANGED <<lastRootFile, root>> /\ "last_root" \notin written')]_vars

\* A remove with no row selected has left alone a list that differs from the
\* file it was loaded from.
C14_Witness ==
    /\ lastOp.op = "remove_selected_favorite"
    /\ lastOp.arg = -1
    /\ written = {}
    /\ fav_list # <<>>
    /\ FavFileLines # fav_list

\* C15: a double-click dispatches on the kind of the row: an existing PDF
\* file emits fileActivated with its path and writes nothing; an existing
\* folder becomes the root, is stored in last_root.txt and is emitted with
\* rootChanged, fileActivated not being emitted; any other row emits nothing
\* and writes nothing.
C15_DoubleClickDispatch ==
    lastOp.op = "on_double_clicked" =>
        LET path == lastOp.arg
        IN IF path \in disk /\ path \in Folders
           THEN /\ emitted = <<Signal("rootChanged", path)>>
                /\ root = path
                /\ lastRootFile = File(path)
           ELSE IF path \in disk /\ EndsWith(Lower(path), DotPdf)
           THEN /\ emitted = <<Signal("fileActivated", path)>>
                /\ written = {}
           ELSE /\ emitted = <<>>
                /\ written = {}

\* C16: a change of root to a folder that does not exist never changes the
\* root: setRootPath of a path that is not on the disk raises and leaves the
\* browser's root as it is, and an _activate_favorite whose folder is not there
\* (already when the handler starts, or no more when it reaches setRootPath)
\* leaves the root and last_root.txt as they are, writes nothing and emits no
\* rootChanged.
C16_MissingFolderKeepsRoot ==
    /\ [](\A p \in Universe \ disk :
             setRootPath(disk, root, p) = [raised |-> TRUE, root |-> root])
    /\ [][(lastOp'.op = "activate_favorite" /\ lastOp'.arg \notin disk') =>
             (UNCHANGED <<root, lastRootFile>> /\ emitted' = <<>> /\ written' = {})]_vars

\* A favorite that is no longer on the disk has been activated in a browser
\* rooted at another favorite, which last_root.txt still names.
C16_Witness ==
    /\ lastOp.op = "activate_favorite"
    /\ lastOp.arg = DirB
    /\ DirB \notin disk
    /\ root = DirA
    /\ lastRootFile = File(DirA)
    /\ emitted = <<>>

----------------------------------------------------------------------------
(* MainWindow: the window state and window_state.json.                     *)

\* JSON values, as json.loads hands them to Python and json.dumps takes them.
JNull == [t |-> "null"]
JBool(b) == [t |-> "bool", b |-> b]
JInt(n) == [t |-> "int", n |-> n]
JStr(s) == [t |-> "str", s |-> s]
JList(items) == [t |-> "list", items |-> items]
JObj(fields) == [t |-> "obj", fields |-> fields]

\* A window_state.json holding a JSON text, and one holding text that is no JSON.
JsonFile(value) == [exists |-> TRUE, parses |-> TRUE, value |-> value]
GarbageFile == [exists |-> TRUE, parses |-> FALSE, value |-> JNull]

\* json.dumps({"geometry": geom, "is_maximized": is_max}) for a list of ints
\* and a bool.
json_dumps(geom, is_max) ==
    JObj([k \in {"geometry", "is_maximized"} |->
            IF k = "geometry"
            THEN JList([i \in 1..Len(geom) |-> JInt(geom[i])])
            ELSE JBool(is_max)])

\* dict.get(key, default)
DictGet(data, key, default) ==
    IF key \in DOMAIN data.fields THEN data.fields[key] ELSE default

\* Python's truth value of a loaded JSON value.
Truthy(v) ==
    CASE v.t = "null" -> FALSE
      [] v.t = "bool" -> v.b
      [] v.t = "int" -> v.n # 0
      [] v.t = "str" -> v.s # <<>>
      [] v.t = "list" -> v.items # <<>>
      [] v.t = "obj" -> DOMAIN v.fields # {}

\* Whether len(v) is defined, and its value.
HasLen(v) == v.t \in {"str", "list", "obj"}
PyLen(v) ==
    CASE v.t = "str" -> Len(v.s)
      [] v.t = "list" -> Len(v.items)
      [] v.t = "obj" -> Cardinality(DOMAIN v.fields)

\* Whether x, y, w, h = v hands setGeometry four ints: the items of a list of
\* ints do; the characters of a string and the keys of a dict are strings.
UnpacksToInts(v) == v.t = "list" /\ \A i \in 1..Len(v.items) : v.items[i].t = "int"

\* The screen a maximized window fills.
ScreenRect == <<0, 0, 1920, 1080>>

Window(state, geom) == [state |-> state, geom |-> geom]

showMaximized(w) == [w EXCEPT !.state = "maximized"]
showNormal(w) == [w EXCEPT !.state = "normal"]
setGeometry(w, g) == [w EXCEPT !.geom = g]

\* [x(), y(), width(), height()]
CurrentRect(w) == IF w.state = "maximized" THEN ScreenRect ELSE w.geom

\* The try block of _load_window_settings on the loaded data: the window it
\* leaves, or that an exception was raised.
Raised(w) == [raised |-> TRUE, win |-> w]
Done(w) == [raised |-> FALSE, win |-> w]

restore_window(w, file) ==
    IF ~file.parses THEN Raised(w)                      \* json.loads
    ELSE IF file.value.t # "obj" THEN Raised(w)         \* data.get
    ELSE LET geom == DictGet(file.value, "geometry", JNull)
             is_max == DictGet(file.value, "is_maximized", JBool(FALSE))
         IN IF Truthy(geom) /\ ~HasLen(geom) THEN Raised(w)          \* len(geom)
            ELSE IF Truthy(geom) /\ PyLen(geom) = 4 /\ ~UnpacksToInts(geom)
            THEN Raised(w)                                          \* setGeometry
            ELSE LET w1 == IF Truthy(geom) /\ PyLen(geom) = 4
                           THEN setGeometry(w, [i \in 1..4 |-> geom.items[i].n])
                           ELSE w
                 IN Done(IF Truthy(is_max) THEN showMaximized(w1) ELSE showNormal(w1))

\* A plausible slip: the window shown normal when the settings cannot be used.
load_window_settings_normal(w) ==
    IF ~windowStateFile.exists THEN showNormal(w)
    ELSE LET r == restore_window(w, windowStateFile)
         IN IF r.raised THEN showNormal(w) ELSE r.win

\* _load_window_settings
load_window_settings(w) ==
    IF ~windowStateFile.exists THEN showMaximized(w)
    ELSE LET r == restore_window(w, windowStateFile)
         IN IF r.raised THEN showMaximized(w) ELSE r.win

\* A plausible slip: the rectangle read without restoring the window first.
save_window_settings_as_shown(w) ==
    json_dumps(CurrentRect(w), w.state = "maximized")

\* _save_window_settings: the JSON written.
save_window_settings(w) ==
    LET is_max == w.state = "maximized"
        geom == IF is_max THEN CurrentRect(showNormal(w)) ELSE CurrentRect(w)
    IN json_dumps(geom, is_max)

\* The geometries a user may give the window.
UserGeoms == {DefaultGeom, <<10, 20, 640, 480>>, <<-5, 0, 300, 200>>}

\* The "geometry" and "is_maximized" entries window_state.json may hold before
\* the first start; "missing" stands for an absent key.
InitGeometries ==
    { JNull, JInt(0), JInt(7), JStr(<<"a", "b", "c", "d">>), JList(<<>>),
      JList(<<JInt(1), JInt(2), JInt(3)>>),
      JList(<<JInt(1), JInt(2), JStr(<<"w">>), JInt(4)>>),
      JList(<<JInt(10), JInt(20), JInt(640), JInt(480)>>) }

InitFlags == {JBool(TRUE), JBool(FALSE), JStr(<<"n", "o">>)}

InitObjects ==
    {JObj([k \in keys |-> IF k = "geometry" THEN g ELSE f]) :
        keys \in SUBSET {"geometry", "is_maximized"}, g \in InitGeometries, f \in InitFlags}

InitWindowFiles ==
    {AbsentJson, GarbageFile} \cup
    {JsonFile(v) : v \in {JNull, JInt(5), JList(<<JInt(1), JInt(2), JInt(3), JInt(4)>>)}
                        \cup InitObjects}

WindowInit ==
    /\ windowStateFile \in InitWindowFiles
    /\ winState = "hidden"
    /\ winGeom = DefaultGeom

\* MainWindow.__init__ and main(): the new window, 1280 by 800, loads its
\* settings, is shown, and loads them once more from the zero timer.
Main ==
    /\ phase = "off"
    /\ phase' = "running"
    /\ LET w == load_window_settings(load_window_settings(Window("hidden", DefaultGeom)))
       IN /\ winState' = w.state
          /\ winGeom' = w.geom
    /\ lastOp' = Op("main", <<>>)
    /\ emitted' = <<>>
    /\ written' = {}
    /\ UNCHANGED windowStateFile
    /\ UNCHANGED <<filterVars, filesVars, viewVars>>

\* The user moves or resizes the normal window.
UserSetsGeometry(g) ==
    /\ phase = "running"
    /\ winState = "normal"
    /\ winGeom # g
    /\ winGeom' = g
    /\ lastOp' = Op("user_geometry", g)
    /\ emitted' = <<>>
    /\ written' = {}
    /\ UNCHANGED <<phase, windowStateFile, winState>>
    /\ UNCHANGED <<filterVars, filesVars, viewVars>>

\* The user maximizes the window or restores it.
UserToggleMaximized ==
    /\ phase = "running"
    /\ winState' = IF winState = "maximized" THEN "normal" ELSE "maximized"
    /\ lastOp' = Op("user_toggle_maximized", <<>>)
    /\ emitted' = <<>>
    /\ written' = {}
    /\ UNCHANGED <<phase, windowStateFile, winGeom>>
    /\ UNCHANGED <<filterVars, filesVars, viewVars>>

\* closeEvent: the settings are saved and the window closes.  lastOp keeps the
\* state the window had at that moment.
CloseEvent ==
    /\ phase = "running"
    /\ phase' = "off"
    /\ windowStateFile' = JsonFile(save_window_settings(Window(winState, winGeom)))
    /\ winState' = "hidden"
    /\ lastOp' = Op("close_event", winState)
    /\ emitted' = <<>>
    /\ written' = {"window_state"}
    /\ UNCHANGED winGeom
    /\ UNCHANGED <<filterVars, filesVars, viewVars>>

InitWindow ==
    WindowInit /\ phase = "off" /\ FilterIdle /\ FilesIdle /\ ViewIdle /\ TraceIdle

NextWindow ==
    \/ Main
    \/ \E g \in UserGeoms : UserSetsGeometry(g)
    \/ UserToggleMaximized
    \/ CloseEvent

SpecWindow == InitWindow /\ [][NextWindow]_vars

\* C4: on close the window-state file holds a JSON object with exactly the
\* keys "geometry" and "is_maximized"; the geometry is a list of four integers,
\* the rectangle of the normal window even when the window was maximized, and
\* the flag is the window's maximized state at the moment of closing.
C4_SavedWindowState ==
    lastOp.op = "close_event" =>
        /\ windowStateFile.exists
        /\ windowStateFile.parses
        /\ windowStateFile.value.t = "obj"
        /\ DOMAIN windowStateFile.value.fields = {"geometry", "is_maximized"}
        /\ LET g == windowStateFile.value.fields["geometry"]
           IN /\ g.t = "list"
              /\ Len(g.items) = 4
              /\ \A i \in 1..4 : g.items[i].t = "int" /\ g.items[i].n = winGeom[i]
        /\ windowStateFile.value.fields["is_maximized"] = JBool(lastOp.arg = "maximized")

\* A window the user had resized and then maximized has been closed.
C4_Witness ==
    /\ lastOp = Op("close_event", "maximized")
    /\ winGeom = <<10, 20, 640, 480>>
    /\ windowStateFile.value.fields["is_maximized"] = JBool(TRUE)

\* The file holds an object with a geometry of four integers.
WellFormedGeometry(file) ==
    /\ file.value.t = "obj"
    /\ "geometry" \in DOMAIN file.value.fields
    /\ file.value.fields["geometry"].t = "list"
    /\ Len(file.value.fields["geometry"].items) = 4
    /\ \A i \in 1..4 : file.value.fields["geometry"].items[i].t = "int"

\* C5 as stated: after startup the window is shown maximized whenever the
\* window-state file is missing, is no JSON, is no JSON object or lacks a
\* well-formed four-integer geometry.
C5_InvalidFileShowsMaximized ==
    lastOp.op = "main" =>
        ((\/ ~windowStateFile.exists
          \/ ~windowStateFile.parses
          \/ ~WellFormedGeometry(windowStateFile)) => winState = "maximized")

\* The geometry is one whose use raises: a number other than 0 (it has no
\* len()), or four items that are not all integers.
GeometryRaises(g) ==
    \/ g.t = "int" /\ g.n # 0
    \/ g.t = "bool" /\ g.b
    \/ g.t = "str" /\ Len(g.s) = 4
    \/ g.t = "obj" /\ Cardinality(DOMAIN g.fields) = 4
    \/ g.t = "list" /\ Len(g.items) = 4 /\ \E i \in 1..4 : g.items[i].t # "int"

\* C5, amended: after startup the window is shown maximized when the file is
\* missing, is no JSON, is no JSON object, or holds a geometry whose use raises;
\* an object with any other geometry (absent, null, empty, not of length four,
\* or four integers) is shown as its "is_maximized" entry says, normal when the
\* entry is absent or false, and keeps its constructed size unless the
\* geometry is four integers.  The window is shown in every case.
C5_StartupWindowState ==
    lastOp.op = "main" =>
        IF \/ ~windowStateFile.exists
           \/ ~windowStateFile.parses
           \/ windowStateFile.value.t # "obj"
        THEN winState = "maximized"
        ELSE LET fields == windowStateFile.value.fields
                 flag == "is_maximized" \in DOMAIN fields /\ Truthy(fields["is_maximized"])
             IN IF "geometry" \in DOMAIN fields /\ GeometryRaises(fields["geometry"])
                THEN winState = "maximized"
                ELSE /\ winState = (IF flag THEN "maximized" ELSE "normal")
                     /\ ~WellFormedGeometry(windowStateFile) => winGeom = DefaultGeom

\* The program has started on an object without geometry and without flag.
C5_Witness ==
    /\ lastOp.op = "main"
    /\ windowStateFile = JsonFile(JObj([k \in {} |-> JNull]))
    /\ winState = "normal"

----------------------------------------------------------------------------
(* CenterPdfView, TocPanel and the MainWindow handlers that drive them.     *)

\* Bound of the documents opened.
MaxPages == 2

Max2(a, b) == IF b > a THEN b ELSE a
Min2(a, b) == IF b < a THEN b ELSE a

\* clamp(v, lo, hi)
clamp(v, lo, hi) == Max2(lo, Min2(hi, v))

\* Where a zoom factor lies on the scale of 1.10-steps, in thousandths of a
\* step: log(6.0) / log(1.10) = 18.799 and log(0.05) / log(1.10) = -31.431.
ZoomPos(z) ==
    1000 * z.exp + (CASE z.base = "one" -> 0
                      [] z.base = "max" -> 18799
                      [] z.base = "min" -> -31431)

ZoomMin == Zoom("min", 0)      \* 0.05
ZoomMax == Zoom("max", 0)      \* 6.0

\* clamp(f, 0.05, 6.0) on zoom factors.
clamp_zoom(f, lo, hi) ==
    LET m == IF ZoomPos(f) < ZoomPos(hi) THEN f ELSE hi
    IN IF ZoomPos(m) > ZoomPos(lo) THEN m ELSE lo

\* A plausible slip: the upper limit one step too high (6.6 for 6.0).
set_zoom_factor_wide(f) == clamp_zoom(f, ZoomMin, Zoom("max", 1))

\* CenterPdfView.set_zoom_factor: the factor handed to the view.
set_zoom_factor(f) == clamp_zoom(f, ZoomMin, ZoomMax)

\* f * 1.10 and f / 1.10
Times110(f) == Zoom(f.base, f.exp + 1)
Over110(f) == Zoom(f.base, f.exp - 1)

\* A plausible slip: fit_height choosing the fit-to-width mode.
fit_height_as_width == "FitToWidth"

\* CenterPdfView.fit_width / fit_height / custom_zoom: the zoom mode they set.
fit_width == "FitToWidth"
fit_height == "FitInView"
custom_zoom == "Custom"

\* MainWindow._apply_fit_height_default
apply_fit_height_default == fit_height

\* What QPdfDocument.load can make of a file: a document with pages, with or
\* without an outline; a document without pages; or no document.
LoadFiles ==
    {[name |-> "a.pdf", status |-> "Ready", pages |-> n, hasToc |-> b] :
        n \in 1..MaxPages, b \in BOOLEAN}
    \cup {[name |-> "e.pdf", status |-> "Ready", pages |-> 0, hasToc |-> FALSE],
          [name |-> "x.pdf", status |-> "Error", pages |-> 0, hasToc |-> FALSE],
          [name |-> "n.pdf", status |-> "Null", pages |-> 0, hasToc |-> FALSE]}

Jump(page, location, zoom) == [page |-> page, location |-> location, zoom |-> zoom]

\* A plausible slip: the overlay left in front after a good load.
load_file_keeps_overlay(file) ==
    IF file.status # "Ready" \/ file.pages = 0
    THEN [ok |-> FALSE, stackIndex |-> 1,
          overlayText |-> <<file.name, "Not readable or empty.">>,
          currentPage |-> currentPage, jumps |-> <<>>, emitted |-> <<>>]
    ELSE [ok |-> TRUE, stackIndex |-> stackIndex, overlayText |-> <<>>,
          currentPage |-> 0, jumps |-> <<Jump(0, NullPoint, 0)>>,
          emitted |-> <<Signal("documentLoaded", <<>>), Signal("pageChanged", 0)>>]

\* CenterPdfView.load_file once the document has been closed and loaded anew:
\* what it returns and what it leaves of the stack, the overlay and the
\* navigator.
load_file(file) ==
    IF file.status # "Ready" \/ file.pages = 0
    THEN [ok |-> FALSE, stackIndex |-> 1,
          overlayText |-> <<file.name, "Not readable or empty.">>,
          currentPage |-> currentPage, jumps |-> <<>>, emitted |-> <<>>]
    ELSE [ok |-> TRUE, stackIndex |-> 0, overlayText |-> <<>>,
          currentPage |-> 0, jumps |-> <<Jump(0, NullPoint, 0)>>,
          emitted |-> <<Signal("documentLoaded", <<>>), Signal("pageChanged", 0)>>]

\* The view's frame: what the files', the window's and the filter's variables do.
ViewFrame == UNCHANGED <<filterVars, phase, filesVars, windowVars, written>>

\* MainWindow.open_pdf with a path, or with the dialog answering one.
OpenPdf(file) ==
    /\ LET r == load_file(file)
       IN /\ loaded' = <<r.ok>>
          /\ stackIndex' = r.stackIndex
          /\ overlayText' = r.overlayText
          /\ currentPage' = r.currentPage
          /\ jumps' = r.jumps
          /\ emitted' = r.emitted
          /\ tools_page_total' = IF r.ok THEN Max2(0, file.pages) ELSE Max2(0, 0)
          /\ tools_current_page' = IF r.ok THEN Max2(0, r.currentPage) ELSE tools_current_page
          /\ tocTabColor' = IF r.ok /\ file.hasToc THEN "#2e7d32" ELSE "#777777"
    /\ docStatus' = file.status
    /\ pageCount' = file.pages
    /\ lastOp' = Op("open_pdf", file)
    /\ UNCHANGED <<zoomMode, zoomFactor>>
    /\ ViewFrame

\* MainWindow.open_pdf without a path, the dialog being cancelled.
OpenPdfCancelled ==
    /\ lastOp' = Op("open_pdf_cancelled", <<>>)
    /\ emitted' = <<>>
    /\ jumps' = <<>>
    /\ UNCHANGED <<stackIndex, overlayText, docStatus, pageCount, currentPage, zoomMode,
                   zoomFactor, tools_page_total, tools_current_page, tocTabColor, loaded>>
    /\ ViewFrame

\* A plausible slip: the page taken as asked for, without the clamp.
go_to_page_unclamped(page_zero_based) == page_zero_based

\* CenterPdfView.go_to_page: the page it jumps to.
go_to_page(page_zero_based) == clamp(page_zero_based, 0, Max2(0, pageCount - 1))

\* go_to_page(p) as a handler: one jump of the navigator to the clamped page.
Navigate(p) ==
    /\ currentPage' = go_to_page(p)
    /\ jumps' = <<Jump(go_to_page(p), NullPoint, 0)>>
    /\ emitted' = <<>>
    /\ UNCHANGED <<stackIndex, overlayText, docStatus, pageCount, zoomMode, zoomFactor,
                   tools_page_total, tools_current_page, tocTabColor, loaded>>
    /\ ViewFrame

\* CenterPdfView.next_page and prev_page; the Home and End shortcuts.
NextPage ==
    /\ lastOp' = Op("next_page", <<>>)
    /\ Navigate(currentPage + 1)

PrevPage ==
    /\ lastOp' = Op("prev_page", <<>>)
    /\ Navigate(currentPage - 1)

HomeKey ==
    /\ lastOp' = Op("home", <<>>)
    /\ Navigate(0)

EndKey ==
    /\ lastOp' = Op("end", <<>>)
    /\ Navigate(Max2(0, pageCount - 1))

\* The pages a requestPageJump(int) may ask for: below, inside and above every
\* document opened.
PageRequests == -2..(MaxPages + 1)

\* tools.requestPageJump -> CenterPdfView.go_to_page, for any page asked.
RequestPageJump(p) ==
    /\ lastOp' = Op("go_to_page", p)
    /\ Navigate(p)

\* The view's scroll bar moves, the user having scrolled to page p of the
\* document shown: _emit_current_page tells the toolbar.
ScrollBarValueChanged(p) ==
    /\ stackIndex = 0
    /\ currentPage' = p
    /\ tools_current_page' = Max2(0, p)
    /\ emitted' = <<Signal("pageChanged", p)>>
    /\ jumps' = <<>>
    /\ lastOp' = Op("scroll", <<>>)
    /\ UNCHANGED <<stackIndex, overlayText, docStatus, pageCount, zoomMode, zoomFactor,
                   tools_page_total, tocTabColor, loaded>>
    /\ ViewFrame

\* A zoom handler leaving the given mode and factor.
SetZoom(mode, factor) ==
    /\ zoomMode' = mode
    /\ zoomFactor' = factor
    /\ emitted' = <<>>
    /\ jumps' = <<>>
    /\ UNCHANGED <<stackIndex, overlayText, docStatus, pageCount, currentPage,
                   tools_page_total, tools_current_page, tocTabColor, loaded>>
    /\ ViewFrame

\* MainWindow._zoom_in, _zoom_out, _fit_width and _fit_height.
ZoomIn ==
    /\ lastOp' = Op("zoom_in", <<>>)
    /\ SetZoom(custom_zoom, set_zoom_factor(Times110(zoomFactor)))

ZoomOut ==
    /\ lastOp' = Op("zoom_out", <<>>)
    /\ SetZoom(custom_zoom, set_zoom_factor(Over110(zoomFactor)))

FitWidth ==
    /\ lastOp' = Op("fit_width", <<>>)
    /\ SetZoom(fit_width, zoomFactor)

FitHeight ==
    /\ lastOp' = Op("fit_height", <<>>)
    /\ SetZoom(fit_height, zoomFactor)

\* An int, or None where an int is looked for.
NoInt == [none |-> TRUE, val |-> 0]
SomeInt(n) == [none |-> FALSE, val |-> n]

\* The entries the bookmark model can hold for the document shown.  page is the
\* Page role: an int, -1 for a bookmark without a valid location.  dest is the
\* Destination role: "absent" where the role does not exist or holds None,
\* "link" an object answering page(), location() and zoom() with the entry's
\* own, "opaque" an object without those methods.
TocTargets == {[location |-> NullPoint, zoom |-> 0], [location |-> <<3, 4>>, zoom |-> 1]}

TocEntries ==
    {e \in [page : {NoInt} \cup {SomeInt(n) : n \in -1..(pageCount - 1)},
            dest : {"absent", "link", "opaque"},
            target : TocTargets] :
        e.dest = "absent" => e.target.location = NullPoint}

\* A plausible slip: the page emitted without the test that it is 0 or more.
toc_activated_unchecked(entry) ==
    IF entry.dest = "link" /\ ~entry.page.none
    THEN <<Signal("jumpToDestination",
                  Jump(entry.page.val, entry.target.location, entry.target.zoom))>>
    ELSE IF ~entry.page.none
    THEN <<Signal("jumpToDestination", Jump(entry.page.val, NullPoint, 0))>>
    ELSE <<>>

\* TocPanel._activated: the signals it emits.
toc_activated(entry) ==
    IF entry.dest = "link" /\ ~entry.page.none /\ entry.page.val >= 0
    THEN <<Signal("jumpToDestination",
                  Jump(entry.page.val, entry.target.location, entry.target.zoom))>>
    ELSE IF ~entry.page.none /\ entry.page.val >= 0
    THEN <<Signal("jumpToDestination", Jump(entry.page.val, NullPoint, 0))>>
    ELSE <<>>

\* The slot MainWindow connects to jumpToDestination: one navigator jump for
\* each emission.
forward_jumps(signals) == [i \in 1..Len(signals) |-> signals[i].arg]

\* The user activates an entry of the TOC tree.
TocActivated(entry) ==
    /\ tocTabColor = "#2e7d32"
    /\ emitted' = toc_activated(entry)
    /\ jumps' = forward_jumps(emitted')
    /\ currentPage' = IF jumps' = <<>> THEN currentPage ELSE jumps'[Len(jumps')].page
    /\ lastOp' = Op("toc_activated", entry)
    /\ UNCHANGED <<stackIndex, overlayText, docStatus, pageCount, zoomMode, zoomFactor,
                   tools_page_total, tools_current_page, tocTabColor, loaded>>
    /\ ViewFrame

\* The view after MainWindow.__init__: no document, the overlay in front, the
\* default fit mode applied.
ViewInit ==
    /\ stackIndex = 1
    /\ overlayText = <<"No document loaded.">>
    /\ docStatus = "Null"
    /\ pageCount = 0
    /\ currentPage = 0
    /\ zoomMode = apply_fit_height_default
    /\ zoomFactor = Zoom("one", 0)
    /\ tools_page_total = 0
    /\ tools_current_page = 0
    /\ tocTabColor = "#777777"
    /\ loaded = <<>>
    /\ jumps = <<>>

InitView ==
    ViewInit /\ phase = "running" /\ FilterIdle /\ FilesIdle /\ WindowIdle /\ TraceIdle

NextView ==
    \/ \E file \in LoadFiles : OpenPdf(file)
    \/ OpenPdfCancelled
    \/ NextPage
    \/ PrevPage
    \/ HomeKey
    \/ EndKey
    \/ \E p \in PageRequests : RequestPageJump(p)
    \/ \E p \in 0..(pageCount - 1) : ScrollBarValueChanged(p)
    \/ ZoomIn
    \/ ZoomOut
    \/ FitWidth
    \/ FitHeight
    \/ \E entry \in TocEntries : TocActivated(entry)

SpecView == InitView /\ [][NextView]_vars

----------------------------------------------------------------------------
(* Claims about the centre view.                                           *)

\* C8: the overlay is the visible layer exactly when no readable document is
\* loaded: before the first load, with the text "No document loaded.", and
\* after a load_file that returned False, which it does exactly for a document
\* whose status is not Ready or that has no pages; after a load_file that
\* returned True the PDF view is the visible layer and, right after it, the
\* navigator is at page 0.
C8_OverlayIffNoDocument ==
    /\ stackIndex \in {0, 1}
    /\ stackIndex = 1 <=> ~(docStatus = "Ready" /\ pageCount > 0)
    /\ loaded = <<>> => stackIndex = 1 /\ overlayText = <<"No document loaded.">>
    /\ loaded = <<FALSE>> => stackIndex = 1 /\ (docStatus # "Ready" \/ pageCount = 0)
    /\ loaded = <<TRUE>> => stackIndex = 0 /\ docStatus = "Ready" /\ pageCount > 0
    /\ lastOp.op = "open_pdf" =>
          /\ loaded # <<>>
          /\ loaded[1] <=> (lastOp.arg.status = "Ready" /\ lastOp.arg.pages > 0)
          /\ loaded[1] => currentPage = 0 /\ jumps = <<Jump(0, NullPoint, 0)>>
          /\ ~loaded[1] => overlayText = <<lastOp.arg.name, "Not readable or empty.">>

\* A readable document of several pages has been opened and is shown.
C8_Witness ==
    /\ lastOp.op = "open_pdf"
    /\ loaded = <<TRUE>>
    /\ stackIndex = 0
    /\ pageCount = MaxPages
    /\ tools_page_total = MaxPages

NavigationOps == {"open_pdf", "open_pdf_cancelled", "next_page", "prev_page", "home",
                  "end", "go_to_page", "scroll", "toc_activated"}

\* C9: the fit mode is always one of Custom, FitToWidth and FitInView; it is
\* FitInView after construction, FitToWidth after _fit_width, FitInView after
\* _fit_height and Custom after _zoom_in and _zoom_out; opening a document,
\* page navigation and TOC jumps leave it as it is.
C9_FitModeFollowsZoomCommand ==
    /\ zoomMode = "FitInView"
    /\ [](zoomMode \in {"Custom", "FitToWidth", "FitInView"})
    /\ [][/\ lastOp'.op = "fit_width" => zoomMode' = "FitToWidth"
          /\ lastOp'.op = "fit_height" => zoomMode' = "FitInView"
          /\ lastOp'.op \in {"zoom_in", "zoom_out"} => zoomMode' = "Custom"
          /\ lastOp'.op \in NavigationOps => zoomMode' = zoomMode]_vars

\* A page has been turned in a document shown fit-to-width.
C9_Witness ==
    /\ lastOp.op = "next_page"
    /\ currentPage = 1
    /\ zoomMode = "FitToWidth"

\* C10: activating a TOC entry whose page is an integer of 0 or more emits
\* jumpToDestination exactly once, with that page, and with the entry's location
\* and zoom when its destination object answers for them; an entry without a
\* valid page emits nothing; and each emission becomes one navigator jump to the
\* same page.
C10_TocActivationJumps ==
    lastOp.op = "toc_activated" =>
        LET entry == lastOp.arg
        IN IF ~entry.page.none /\ entry.page.val >= 0
           THEN /\ Len(emitted) = 1
                /\ emitted[1].sig = "jumpToDestination"
                /\ emitted[1].arg.page = entry.page.val
                /\ entry.dest = "link" =>
                      /\ emitted[1].arg.location = entry.target.location
                      /\ emitted[1].arg.zoom = entry.target.zoom
                /\ jumps = <<emitted[1].arg>>
                /\ currentPage = entry.page.val
           ELSE emitted = <<>> /\ jumps = <<>>

\* An entry with a destination object for the last page, at a location of its
\* own, has been activated.
C10_Witness ==
    /\ lastOp.op = "toc_activated"
    /\ lastOp.arg.dest = "link"
    /\ lastOp.arg.page = SomeInt(MaxPages - 1)
    /\ emitted = <<Signal("jumpToDestination", Jump(MaxPages - 1, <<3, 4>>, 1))>>

\* The commands that turn pages through go_to_page.
PageCommands == {"go_to_page", "next_page", "prev_page", "home", "end"}

\* The last page of the document shown, 0 when there is none.
LastPage == IF pageCount >= 1 THEN pageCount - 1 ELSE 0

\* C11: page navigation never leaves the document: every go_to_page(p),
\* next_page, prev_page, Home and End makes one jump, to a page from 0 to
\* max(0, n - 1) for the page count n; go_to_page(p) goes to p itself when p is
\* such a page, to 0 when p is below and to the last page when p is above;
\* next_page on the last page and prev_page on page 0 leave the current page
\* as it is; with no document (n = 0) every command goes to page 0.
C11_NavigationStaysInDocument ==
    [][lastOp'.op \in PageCommands =>
          /\ pageCount' = pageCount
          /\ jumps' = <<Jump(currentPage', NullPoint, 0)>>
          /\ currentPage' >= 0 /\ currentPage' <= LastPage
          /\ pageCount = 0 => currentPage' = 0
          /\ lastOp'.op = "go_to_page" =>
                currentPage' = (IF lastOp'.arg < 0 THEN 0
                                ELSE IF lastOp'.arg > LastPage THEN LastPage
                                ELSE lastOp'.arg)
          /\ lastOp'.op = "next_page" /\ pageCount >= 1 /\ currentPage = pageCount - 1 =>
                currentPage' = currentPage
          /\ lastOp'.op = "prev_page" /\ currentPage = 0 => currentPage' = currentPage
          /\ lastOp'.op = "home" => currentPage' = 0
          /\ lastOp'.op = "end" => currentPage' = LastPage]_vars

\* A page above the last one has been asked for in the largest document, and
\* the view is on the last page.
C11_Witness ==
    /\ lastOp.op = "go_to_page"
    /\ lastOp.arg = MaxPages + 1
    /\ pageCount = MaxPages
    /\ currentPage = MaxPages - 1
    /\ jumps = <<Jump(MaxPages - 1, NullPoint, 0)>>

\* C12: the zoom factor handed to the view is always within [0.05, 6.0]: a
\* zoom-in hands over the factor times 1.10, or 6.0 when that would be more; a
\* zoom-out hands over the factor divided by 1.10, or 0.05 when that would be
\* less; so zooming in at 6.0 stays at 6.0 and zooming out at 0.05 stays at 0.05.
C12_ZoomFactorClamped ==
    /\ [](/\ ZoomPos(zoomFactor) >= ZoomPos(ZoomMin)
          /\ ZoomPos(zoomFactor) <= ZoomPos(ZoomMax))
    /\ [][/\ lastOp'.op = "zoom_in" =>
                zoomFactor' = (IF ZoomPos(Times110(zoomFactor)) > ZoomPos(ZoomMax)
                               THEN ZoomMax ELSE Times110(zoomFactor))
          /\ lastOp'.op = "zoom_out" =>
                zoomFactor' = (IF ZoomPos(Over110(zoomFactor)) < ZoomPos(ZoomMin)
                               THEN ZoomMin ELSE Over110(zoomFactor))]_vars

\* Zooming in has reached 6.0, the view having been at 6.0 / 1.10 or above.
C12_Witness ==
    /\ lastOp.op = "zoom_in"
    /\ zoomFactor = ZoomMax
    /\ zoomMode = "Custom"

====
